---- MODULE Spec2Model ----
(***************************************************************************)
(* Model of pcapng_to_har.py: the command-line entry point `cli`, the      *)
(* conversion driver `pcapng_to_har`, and the collaborators it calls       *)
(* (Tshark, NetworkTrafficDump, Stacktrace, ContentDecryption).            *)
(***************************************************************************)
EXTENDS Integers, Sequences, FiniteSets, TLC

\* ------------------------------------------------------------------ bounds
MaxEntries == 1
Window == 1

\* ------------------------------------------------------------------ paths
\* A pathlib.Path is compared lexically; two different paths can name one file.
Stems == {"a"}
Suffixes == {".pcapng", ".har"}
Paths == [abs : BOOLEAN, stem : Stems, suffix : Suffixes]
NoPath == [abs |-> FALSE, stem |-> "None", suffix |-> ""]
Files == [stem : Stems, suffix : Suffixes]

\* Path.with_suffix(".har"): the last suffix replaced, the rest of the path kept.
WithSuffix(p, s) == [p EXCEPT !.suffix = s]

\* The file a path names: a relative path is resolved against the working
\* directory, an absolute one is already there.
FileOf(p) == [stem |-> p.stem, suffix |-> p.suffix]

\* ------------------------------------------------------------------ files
Absent == [kind |-> "absent", doc |-> <<>>]
Old == [kind |-> "old", doc |-> <<>>]
Partial == [kind |-> "partial", doc |-> <<>>]
\* A completely written HAR document.
HarFile(d) == [kind |-> "har", doc |-> d]

\* Path.exists()
Exists(f, p) == f[FileOf(p)].kind # "absent"

\* ------------------------------------------------------------------ HAR document
NoStack == [sock |-> "none", pid |-> 0]

Cipher(t) == [text |-> t, encoding |-> "base64"]
Plain(t) == [text |-> t, encoding |-> "none"]

\* HAR Projector: an entry as projected from a transaction, extension area empty.
Entry(ep, t, req, resp) ==
    [ep |-> ep, t |-> t, req |-> req, resp |-> resp,
     stack |-> NoStack, reqDecrypted |-> FALSE, respDecrypted |-> FALSE]

BaseEntries ==
    { Entry("e1", 1, Cipher("c1"), Cipher("c2")),
      Entry("e1", 2, Plain("p0"), Cipher("c1")),
      Entry("e2", 1, Cipher("c2"), Plain("p0")) }

RECURSIVE SeqsUpTo(_, _)
SeqsUpTo(S, n) ==
    IF n = 0 THEN {<<>>}
    ELSE LET shorter == SeqsUpTo(S, n - 1)
         IN  shorter \cup {Append(s, x) : s \in {q \in shorter : Len(q) = n - 1}, x \in S}

\* NetworkTrafficDump.to_har(): the documents a parsed capture can project to.
BaseDocs == SeqsUpTo(BaseEntries, MaxEntries)

\* The request and response body content of an entry.
Content(e) == <<e.req, e.resp>>

\* ------------------------------------------------------------------ feeds
\* A feed argument: None, or a path whose target is missing, a directory, an
\* unreadable file, a file that does not parse, or a valid feed with records.
NoFeed == [kind |-> "None", recs |-> {}]
FeedKinds == {"missing", "dir", "unreadable", "malformed", "valid"}

SocketPool ==
    { [ep |-> "e1", ts |-> 1, pid |-> 1, sock |-> "s1"],
      [ep |-> "e1", ts |-> 1, pid |-> 2, sock |-> "s2"],
      [ep |-> "e1", ts |-> 0, pid |-> 1, sock |-> "s2"] }

CryptoPool ==
    { [handle |-> "h1", dir |-> "request", plain |-> "p1"],
      [handle |-> "h1", dir |-> "response", plain |-> "p2"],
      [handle |-> "h2", dir |-> "response", plain |-> "p3"],
      [handle |-> "s1", dir |-> "request", plain |-> "p4"] }

\* Content hash of a stored ciphertext, the handle of a record keyed by it.
Hash(t) == CASE t = "c1" -> "h1" [] t = "c2" -> "h2" [] OTHER -> "h0"

\* Path.is_file()
IsFile(feed) == feed.kind \in {"unreadable", "malformed", "valid"}

\* `Path(x) if x else None` followed by `x and x.is_file()`
FeedUsable(feed) == feed # NoFeed /\ IsFile(feed)

\* Loading the feed file in the enricher's constructor
FeedLoads(feed) == feed.kind = "valid"

\* ------------------------------------------------------------------ Stacktrace enricher
\* Records for the entry's remote endpoint that precede its start within the window.
Candidates(e, recs) ==
    {r \in recs : r.ep = e.ep /\ r.ts <= e.t /\ e.t - r.ts <= Window}

\* The closest preceding record; ties broken by the smallest process id.
SelectRecord(C) ==
    LET closest == {r \in C : \A q \in C : q.ts <= r.ts}
    IN  CHOOSE r \in closest : \A q \in closest : r.pid <= q.pid

\* A stacktrace pass that also rewrites the response content of a matched entry.
StacktraceEntryTouchingContent(e, recs) ==
    IF Candidates(e, recs) = {} THEN e
    ELSE LET r == SelectRecord(Candidates(e, recs))
         IN  [e EXCEPT !.stack = [sock |-> r.sock, pid |-> r.pid], !.resp = Plain("")]

\* A stacktrace pass that replaces the whole extension area of a matched entry.
StacktraceEntryResettingExtension(e, recs) ==
    IF Candidates(e, recs) = {} THEN e
    ELSE LET r == SelectRecord(Candidates(e, recs))
         IN  [e EXCEPT !.stack = [sock |-> r.sock, pid |-> r.pid],
                       !.reqDecrypted = FALSE, !.respDecrypted = FALSE]

\* Attaches the selected record's call stack to the entry's extension area.
StacktraceEntry(e, recs) ==
    IF Candidates(e, recs) = {} THEN e
    ELSE LET r == SelectRecord(Candidates(e, recs))
         IN  [e EXCEPT !.stack = [sock |-> r.sock, pid |-> r.pid]]

\* Stacktrace(har_data, file).enrich()
StacktraceEnrich(doc, recs) ==
    IF doc = <<>> THEN <<>>
    ELSE [i \in 1..Len(doc) |-> StacktraceEntry(doc[i], recs)]

\* ------------------------------------------------------------------ Content decryption enricher
\* The handles an entry's content resolves to, in lookup order: the socket
\* identifier attached by the stacktrace pass when present, then the content hash.
HandlesOf(e, c) ==
    IF e.stack # NoStack THEN <<e.stack.sock, Hash(c.text)>> ELSE <<Hash(c.text)>>

Lookup(recs, h, d) == {r \in recs : r.handle = h /\ r.dir = d}

\* The records matching the first handle that has any.
Resolve(e, c, d, recs) ==
    LET hs == HandlesOf(e, c)
        hits == {i \in 1..Len(hs) : Lookup(recs, hs[i], d) # {}}
    IN  IF hits = {} THEN {}
        ELSE Lookup(recs, hs[CHOOSE i \in hits : \A j \in hits : i <= j], d)

\* Replaces one direction's content by the matching record's plaintext.
DecryptedContent(e, c, d, recs) ==
    IF Resolve(e, c, d, recs) = {} THEN c
    ELSE Plain((CHOOSE r \in Resolve(e, c, d, recs) : TRUE).plain)

DecryptionEntry(e, recs) ==
    [e EXCEPT !.req = DecryptedContent(e, e.req, "request", recs),
              !.resp = DecryptedContent(e, e.resp, "response", recs),
              !.reqDecrypted = @ \/ Resolve(e, e.req, "request", recs) # {},
              !.respDecrypted = @ \/ Resolve(e, e.resp, "response", recs) # {}]

\* ContentDecryption(har_data, file).enrich()
DecryptionEnrich(doc, recs) ==
    IF doc = <<>> THEN <<>>
    ELSE [i \in 1..Len(doc) |-> DecryptionEntry(doc[i], recs)]

\* ------------------------------------------------------------------ JSON dump keywords
\* Keyword names json.dump accepts; any other name makes the encoder's
\* constructor raise TypeError before a byte is written.
JsonKeywords == {"indent", "sort_keys", "ensure_ascii"}
NoKws == [k \in {} |-> NoFeed]
KwsValid(kws) == DOMAIN kws \subseteq JsonKeywords

\* ------------------------------------------------------------------ call binding
\* The named parameters of pcapng_to_har that take a feed path.
FeedParams == {"socket_operations_file", "cryptography_operations_file"}

\* A keyword argument reaches the parameter of the same name, else the default.
BindParam(kwargs, name) == IF name \in DOMAIN kwargs THEN kwargs[name] ELSE NoFeed

\* Keyword arguments that match no parameter are collected by **json_dump_kws.
ExtraKws(kwargs) == [k \in (DOMAIN kwargs) \ FeedParams |-> kwargs[k]]

\* The keyword arguments cli passes for the two feeds.
CliKwargs(sf, cf) ==
    ("socket_operations_file" :> sf) @@ ("cryptographic_operations_file" :> cf)

IndentVal == [kind |-> "int", recs |-> {}]

SocketFeedArgs ==
    {NoFeed} \cup {[kind |-> k, recs |-> IF k = "valid" THEN SocketPool ELSE {}] : k \in FeedKinds}
CryptoFeedArgs ==
    {NoFeed} \cup {[kind |-> k, recs |-> IF k = "valid" THEN CryptoPool ELSE {}] : k \in FeedKinds}
DumpKwargs == {NoKws, "indent" :> IndentVal}
NoArgv == [i |-> NoPath, o |-> NoPath, force |-> FALSE, sf |-> NoFeed, cf |-> NoFeed]

\* ------------------------------------------------------------------ state
VARIABLES
    pc,                            \* position in cli / pcapng_to_har
    debug,                         \* __debug__: assert statements are executed
    argv,                          \* parsed command line (cli runs only)
    via_cli,                       \* the run was started by cli
    input_file,
    output_file,
    overwrite,
    socket_operations_file,
    cryptography_operations_file,
    json_dump_kws,
    fs,                            \* file -> content
    fs0,                           \* the file system when the run started
    traffic,                       \* the parsed traffic's HAR projection
    har_data,
    enriched,
    error,                         \* exception raised by pcapng_to_har
    cli_error,                     \* exception raised by cli
    writes,                        \* files opened for writing, in order
    passes,                        \* enrichment passes constructed, in order
    tshark_invoked

vars == <<pc, debug, argv, via_cli, input_file, output_file, overwrite,
          socket_operations_file, cryptography_operations_file, json_dump_kws,
          fs, fs0, traffic, har_data, enriched, error, cli_error, writes, passes,
          tshark_invoked>>

env == <<debug, fs0>>
params == <<argv, via_cli, input_file, overwrite, socket_operations_file,
            cryptography_operations_file, json_dump_kws>>

Running == {"entry", "load", "parse", "save", "stack", "decrypt", "resave", "dump"}

Init ==
    /\ pc = "init"
    /\ debug \in BOOLEAN
    /\ fs \in [Files -> {Absent, Old}]
    /\ fs0 = fs
    /\ argv = NoArgv
    /\ via_cli = FALSE
    /\ input_file = NoPath
    /\ output_file = NoPath
    /\ overwrite = FALSE
    /\ socket_operations_file = NoFeed
    /\ cryptography_operations_file = NoFeed
    /\ json_dump_kws = NoKws
    /\ traffic = <<>>
    /\ har_data = <<>>
    /\ enriched = FALSE
    /\ error = "none"
    /\ cli_error = "none"
    /\ writes = <<>>
    /\ passes = <<>>
    /\ tshark_invoked = FALSE

\* ------------------------------------------------------------------ entry points
\* cli(): parse the command line and call pcapng_to_har.
Cli ==
    /\ pc = "init"
    /\ \E i \in Paths, o \in {NoPath} \cup Paths, force \in BOOLEAN,
          sf \in SocketFeedArgs, cf \in CryptoFeedArgs :
        /\ argv' = [i |-> i, o |-> o, force |-> force, sf |-> sf, cf |-> cf]
        /\ input_file' = i
        /\ output_file' = o
        /\ overwrite' = force
        /\ socket_operations_file' = BindParam(CliKwargs(sf, cf), "socket_operations_file")
        /\ cryptography_operations_file' =
               BindParam(CliKwargs(sf, cf), "cryptography_operations_file")
        /\ json_dump_kws' = ExtraKws(CliKwargs(sf, cf))
    /\ via_cli' = TRUE
    /\ pc' = "entry"
    /\ UNCHANGED <<env, fs, traffic, har_data, enriched, error, cli_error, writes,
                   passes, tshark_invoked>>

\* A direct call of pcapng_to_har with its feed parameters named correctly.
Call ==
    /\ pc = "init"
    /\ \E i \in Paths, o \in {NoPath} \cup Paths, ow \in BOOLEAN,
          sf \in SocketFeedArgs, cf \in CryptoFeedArgs, kws \in DumpKwargs :
        LET kwargs == ("socket_operations_file" :> sf)
                      @@ ("cryptography_operations_file" :> cf) @@ kws
        IN  /\ input_file' = i
            /\ output_file' = o
            /\ overwrite' = ow
            /\ socket_operations_file' = BindParam(kwargs, "socket_operations_file")
            /\ cryptography_operations_file' =
                   BindParam(kwargs, "cryptography_operations_file")
            /\ json_dump_kws' = ExtraKws(kwargs)
    /\ pc' = "entry"
    /\ UNCHANGED <<env, argv, via_cli, fs, traffic, har_data, enriched, error,
                   cli_error, writes, passes, tshark_invoked>>

\* ------------------------------------------------------------------ pcapng_to_har
Raise(e) == pc' = "failed" /\ error' = e

\* The output path: the given one, or the input path with suffix .har.
OutputPath(inp, out) == IF out = NoPath THEN WithSuffix(inp, ".har") ELSE out

\* `assert output_file != input_file`: skipped when asserts are compiled out.
AssertDistinct(dbg, inp, out) == dbg => out # inp

\* A fail-fast check that lets an existing output through.
FailFastNever(f, out, ow) == FALSE

\* `if output_file.exists() and not overwrite`
FailFast(f, out, ow) == Exists(f, out) /\ ~ow

\* Resolve the output path, refuse to convert a file onto itself, fail fast
\* on an existing output.
Prologue ==
    /\ pc = "entry"
    /\ output_file' = OutputPath(input_file, output_file)
    /\ IF ~AssertDistinct(debug, input_file, output_file')
         THEN Raise("AssertionError")
         ELSE IF FailFast(fs, output_file', overwrite)
                THEN Raise("FileExistsError")
                ELSE pc' = "load" /\ UNCHANGED error
    /\ UNCHANGED <<env, params, fs, traffic, har_data, enriched, cli_error, writes,
                   passes, tshark_invoked>>

\* tshark.load_traffic(input_file): the decoding tool reads the capture.
LoadTraffic ==
    /\ pc = "load"
    /\ tshark_invoked' = TRUE
    /\ \/ Exists(fs, input_file) /\ pc' = "parse" /\ UNCHANGED error
       \/ Raise("DecodeError")
    /\ UNCHANGED <<env, params, output_file, fs, traffic, har_data, enriched,
                   cli_error, writes, passes>>

\* A parse step that has already created the output file when it fails.
ParseTrafficAfterOpen ==
    /\ pc = "parse"
    /\ \/ \E d \in BaseDocs : traffic' = d /\ pc' = "save" /\ UNCHANGED <<error, fs>>
       \/ /\ Raise("DecodeError")
          /\ fs' = [fs EXCEPT ![FileOf(output_file)] = Partial]
          /\ UNCHANGED traffic
    /\ UNCHANGED <<env, params, output_file, har_data, enriched, cli_error,
                   writes, passes, tshark_invoked>>

\* traffic.parse_traffic()
ParseTraffic ==
    /\ pc = "parse"
    /\ \/ \E d \in BaseDocs : traffic' = d /\ pc' = "save" /\ UNCHANGED error
       \/ Raise("DecodeError") /\ UNCHANGED traffic
    /\ UNCHANGED <<env, params, output_file, fs, har_data, enriched, cli_error,
                   writes, passes, tshark_invoked>>

\* NetworkTrafficDump.save_har: what it raises instead of writing, "none" if it
\* writes. The output conflict is fatal, and the dump keywords go to the encoder.
SaveHarError(f, out, ow, kws) ==
    IF Exists(f, out) /\ ~ow THEN "FileExistsError"
    ELSE IF ~KwsValid(kws) THEN "TypeError"
    ELSE "none"

\* NetworkTrafficDump.save_har: the document is written to a temporary location
\* and published atomically at the output path.
SaveHarPublish(f, out, doc) == [f EXCEPT ![FileOf(out)] = HarFile(doc)]

\* traffic.save_har(output_file, overwrite=..., **json_dump_kws), then
\* har_data = traffic.to_har() and enriched = False.
SaveHar ==
    /\ pc = "save"
    /\ IF SaveHarError(fs, output_file, overwrite, json_dump_kws) # "none"
         THEN /\ Raise(SaveHarError(fs, output_file, overwrite, json_dump_kws))
              /\ UNCHANGED <<fs, writes, har_data>>
         ELSE /\ fs' = SaveHarPublish(fs, output_file, traffic)
              /\ writes' = Append(writes, FileOf(output_file))
              /\ har_data' = traffic
              /\ pc' = "stack"
              /\ UNCHANGED error
    /\ enriched' = FALSE
    /\ UNCHANGED <<env, params, output_file, traffic, cli_error, passes, tshark_invoked>>

\* The exception an enricher's constructor raises on a feed it cannot load.
LoadError(feed) == IF feed.kind = "unreadable" THEN "PermissionError" ELSE "JSONDecodeError"

\* Add stacktrace information to the HAR.
StacktracePass ==
    /\ pc = "stack"
    /\ IF FeedUsable(socket_operations_file)
         THEN /\ enriched' = TRUE
              /\ passes' = Append(passes, "stacktrace")
              /\ IF FeedLoads(socket_operations_file)
                   THEN /\ har_data' = StacktraceEnrich(har_data, socket_operations_file.recs)
                        /\ pc' = "decrypt"
                        /\ UNCHANGED error
                   ELSE Raise(LoadError(socket_operations_file)) /\ UNCHANGED har_data
         ELSE pc' = "decrypt" /\ UNCHANGED <<enriched, passes, har_data, error>>
    /\ UNCHANGED <<env, params, output_file, fs, traffic, cli_error, writes, tshark_invoked>>

\* A decryption step that opens the output file before it constructs the pass.
DecryptionPassInsideOpen ==
    /\ pc = "decrypt"
    /\ IF FeedUsable(cryptography_operations_file)
         THEN /\ enriched' = TRUE
              /\ passes' = Append(passes, "decryption")
              /\ fs' = [fs EXCEPT ![FileOf(output_file)] = Partial]
              /\ IF FeedLoads(cryptography_operations_file)
                   THEN /\ har_data' =
                               DecryptionEnrich(har_data, cryptography_operations_file.recs)
                        /\ pc' = "resave"
                        /\ UNCHANGED error
                   ELSE Raise(LoadError(cryptography_operations_file)) /\ UNCHANGED har_data
         ELSE pc' = "resave" /\ UNCHANGED <<enriched, passes, har_data, error, fs>>
    /\ UNCHANGED <<env, params, output_file, traffic, cli_error, writes, tshark_invoked>>

\* Add content decryption to the HAR.
DecryptionPass ==
    /\ pc = "decrypt"
    /\ IF FeedUsable(cryptography_operations_file)
         THEN /\ enriched' = TRUE
              /\ passes' = Append(passes, "decryption")
              /\ IF FeedLoads(cryptography_operations_file)
                   THEN /\ har_data' =
                               DecryptionEnrich(har_data, cryptography_operations_file.recs)
                        /\ pc' = "resave"
                        /\ UNCHANGED error
                   ELSE Raise(LoadError(cryptography_operations_file)) /\ UNCHANGED har_data
         ELSE pc' = "resave" /\ UNCHANGED <<enriched, passes, har_data, error>>
    /\ UNCHANGED <<env, params, output_file, fs, traffic, cli_error, writes, tshark_invoked>>

\* `if enriched:` decides whether the document is written again.
Resave(enr) == enr

\* `with output_file.open("w") as f`: the output file is truncated in place.
OpenOutput ==
    /\ pc = "resave"
    /\ Resave(enriched)
    /\ fs' = [fs EXCEPT ![FileOf(output_file)] = Partial]
    /\ writes' = Append(writes, FileOf(output_file))
    /\ pc' = "dump"
    /\ UNCHANGED <<env, params, output_file, traffic, har_data, enriched, error,
                   cli_error, passes, tshark_invoked>>

\* Nothing was enriched: the HAR saved first stands.
SkipResave ==
    /\ pc = "resave"
    /\ ~Resave(enriched)
    /\ pc' = "done"
    /\ UNCHANGED <<env, params, output_file, fs, traffic, har_data, enriched, error,
                   cli_error, writes, passes, tshark_invoked>>

\* json.dump(har_data, f, **json_dump_kws) and the close of the file.
JsonDump ==
    /\ pc = "dump"
    /\ IF KwsValid(json_dump_kws)
         THEN /\ fs' = [fs EXCEPT ![FileOf(output_file)] = HarFile(har_data)]
              /\ pc' = "done"
              /\ UNCHANGED error
         ELSE Raise("TypeError") /\ UNCHANGED fs
    /\ UNCHANGED <<env, params, output_file, traffic, har_data, enriched, cli_error,
                   writes, passes, tshark_invoked>>

\* The run is cancelled (interrupt, kill) wherever it stands.
Abort ==
    /\ pc \in Running
    /\ pc' = "aborted"
    /\ UNCHANGED <<env, params, output_file, fs, traffic, har_data, enriched, error,
                   cli_error, writes, passes, tshark_invoked>>

\* cli's `except Exception as e: raise RuntimeError(args.i) from e`
CliReraise ==
    /\ pc = "failed"
    /\ via_cli
    /\ cli_error' = "RuntimeError"
    /\ pc' = "cli_failed"
    /\ UNCHANGED <<env, params, output_file, fs, traffic, har_data, enriched, error,
                   writes, passes, tshark_invoked>>

Next ==
    \/ Cli
    \/ Call
    \/ Prologue
    \/ LoadTraffic
    \/ ParseTraffic
    \/ SaveHar
    \/ StacktracePass
    \/ DecryptionPass
    \/ OpenOutput
    \/ SkipResave
    \/ JsonDump
    \/ Abort
    \/ CliReraise

Spec == Init /\ [][Next]_vars

\* ------------------------------------------------------------------ the enrichment passes alone
\* The two passes applied to a base document in either order.
InitEnrich ==
    /\ pc = "enrich"
    /\ debug = TRUE
    /\ fs = [f \in Files |-> Absent]
    /\ fs0 = fs
    /\ argv = NoArgv
    /\ via_cli = FALSE
    /\ input_file = NoPath
    /\ output_file = NoPath
    /\ overwrite = FALSE
    /\ \E recs \in SUBSET SocketPool :
           socket_operations_file = [kind |-> "valid", recs |-> recs]
    /\ \E recs \in SUBSET CryptoPool :
           cryptography_operations_file = [kind |-> "valid", recs |-> recs]
    /\ json_dump_kws = NoKws
    /\ traffic \in BaseDocs
    /\ har_data = traffic
    /\ enriched = FALSE
    /\ error = "none"
    /\ cli_error = "none"
    /\ writes = <<>>
    /\ passes = <<>>
    /\ tshark_invoked = FALSE

InSeq(s, x) == \E i \in 1..Len(s) : s[i] = x

EnrichStacktrace ==
    /\ pc = "enrich"
    /\ ~InSeq(passes, "stacktrace")
    /\ har_data' = StacktraceEnrich(har_data, socket_operations_file.recs)
    /\ passes' = Append(passes, "stacktrace")
    /\ UNCHANGED <<pc, env, params, output_file, fs, traffic, enriched, error,
                   cli_error, writes, tshark_invoked>>

EnrichDecryption ==
    /\ pc = "enrich"
    /\ ~InSeq(passes, "decryption")
    /\ har_data' = DecryptionEnrich(har_data, cryptography_operations_file.recs)
    /\ passes' = Append(passes, "decryption")
    /\ UNCHANGED <<pc, env, params, output_file, fs, traffic, enriched, error,
                   cli_error, writes, tshark_invoked>>

NextEnrich ==
    \/ EnrichStacktrace
    \/ EnrichDecryption

SpecEnrich == InitEnrich /\ [][NextEnrich]_vars

\* ------------------------------------------------------------------ claims
Raised == pc \in {"failed", "cli_failed"}
PastPrologue == pc \in (Running \ {"entry"}) \cup {"done", "failed", "cli_failed"}
FeedErrors == {"PermissionError", "JSONDecodeError"}
OutFile == FileOf(output_file)
NothingWritten == writes = <<>> /\ fs = fs0
OutputConflict == PastPrologue /\ fs0[OutFile].kind # "absent" /\ ~overwrite

\* C1 (as stated): when the output file exists and overwrite is false, the call
\* fails with FileExistsError, the decoding tool is not invoked, no pass runs and
\* the file system is unchanged.
C1_FailsWithFileExistsError ==
    OutputConflict =>
        /\ Raised /\ error = "FileExistsError"
        /\ ~tshark_invoked /\ passes = <<>> /\ NothingWritten

\* C1 (amended): when the output file exists and overwrite is false, the call
\* fails with FileExistsError, or with AssertionError when the output path equals
\* the input path; in both cases the decoding tool is not invoked, no pass runs
\* and the file system is unchanged.
C1_FailsBeforeAnyWork ==
    OutputConflict =>
        /\ Raised
        /\ \/ error = "FileExistsError"
           \/ error = "AssertionError" /\ output_file = input_file
        /\ ~tshark_invoked /\ passes = <<>> /\ NothingWritten

C1_Witness ==
    /\ Raised /\ error = "FileExistsError" /\ ~overwrite
    /\ fs0[OutFile] = Old /\ fs[OutFile] = Old
    /\ output_file # input_file

\* C2: once a run is in the enrichment phase the unenriched HAR is in the output
\* file, written before any pass was constructed; and when the run ends, normally
\* or by the failure of a pass, the output file holds a complete HAR document,
\* the base one or the enriched one.
C2_BaseHarSurvivesEnrichment ==
    /\ passes # <<>> => Len(writes) >= 1 /\ writes[1] = OutFile
    /\ pc \in {"stack", "decrypt", "resave"} =>
           /\ writes = <<OutFile>>
           /\ fs[OutFile] = [kind |-> "har", doc |-> traffic]
    /\ (Raised /\ error \in FeedErrors) =>
           fs[OutFile] = [kind |-> "har", doc |-> traffic]
    /\ (pc = "done") =>
           /\ fs[OutFile].kind = "har"
           /\ fs[OutFile].doc \in {traffic, har_data}

C2_Witness ==
    /\ Raised /\ error \in FeedErrors
    /\ passes = <<"stacktrace", "decryption">>
    /\ har_data # traffic
    /\ fs[OutFile] = [kind |-> "har", doc |-> traffic]

\* C3: when loading or parsing the capture fails, nothing has been written: an
\* absent output file stays absent and an existing one keeps its content,
\* whatever overwrite is.
C3_DecodeErrorWritesNothing ==
    (Raised /\ error = "DecodeError") => NothingWritten

C3_Witness ==
    /\ Raised /\ error = "DecodeError" /\ overwrite
    /\ traffic = <<>> /\ pc = "failed"
    /\ fs0[OutFile] = Old /\ fs[OutFile] = Old /\ OutFile # FileOf(input_file)
    /\ Exists(fs, input_file)

NotReadable(feed) == feed.kind \in {"None", "missing", "dir", "unreadable"}
PastPasses == pc \in {"resave", "dump", "done"}

\* C4 (as stated): a feed that is absent, not a file or unreadable raises no
\* error and does not run its pass, and the other pass runs exactly when the
\* other feed is valid.
C4_UnreadableFeedSkipsItsPass ==
    /\ NotReadable(socket_operations_file) =>
           /\ ~InSeq(passes, "stacktrace")
           /\ PastPasses =>
                  (InSeq(passes, "decryption") <=> cryptography_operations_file.kind = "valid")
    /\ NotReadable(cryptography_operations_file) =>
           /\ ~InSeq(passes, "decryption")
           /\ PastPasses =>
                  (InSeq(passes, "stacktrace") <=> socket_operations_file.kind = "valid")
    /\ error # "PermissionError"

\* C5 (as stated): the output file is written a second time only if a pass
\* changed the document.
C5_RewrittenOnlyIfChanged ==
    Len(writes) >= 2 => har_data # traffic

\* C6 (as stated): in every reachable state, aborted ones included, no file
\* holds a partially written document.
C6_NoPartialOutput ==
    \A f \in Files : fs[f].kind # "partial"

\* C7: in a finished run without a usable cryptography-operations feed, every
\* entry of the final output file has the request and response content of the
\* unenriched HAR.
C7_ContentUnchangedWithoutCryptoFeed ==
    (pc = "done" /\ ~FeedUsable(cryptography_operations_file)) =>
        /\ fs[OutFile].kind = "har"
        /\ Len(fs[OutFile].doc) = Len(traffic)
        /\ \A i \in 1..Len(traffic) : Content(fs[OutFile].doc[i]) = Content(traffic[i])

C7_Witness ==
    /\ pc = "done" /\ cryptography_operations_file = NoFeed
    /\ passes = <<"stacktrace">> /\ Len(writes) = 2
    /\ fs[OutFile] = [kind |-> "har", doc |-> har_data]
    /\ har_data # traffic

OtherOrder ==
    IF passes[1] = "stacktrace"
      THEN StacktraceEnrich(DecryptionEnrich(traffic, cryptography_operations_file.recs),
                            socket_operations_file.recs)
      ELSE DecryptionEnrich(StacktraceEnrich(traffic, socket_operations_file.recs),
                            cryptography_operations_file.recs)

\* Some entry's content resolves to a record through the identifier the
\* stacktrace pass attaches.
ResolvedThroughStack ==
    \E i \in 1..Len(traffic), d \in {"request", "response"} :
        LET e == StacktraceEntry(traffic[i], socket_operations_file.recs)
        IN  e.stack # NoStack /\ Lookup(cryptography_operations_file.recs, e.stack.sock, d) # {}

C9_CliFeedsReachTheirParameters ==
    (via_cli /\ pc # "init") =>
        /\ socket_operations_file = argv.sf
        /\ cryptography_operations_file = argv.cf
        /\ \A k \in DOMAIN json_dump_kws :
               json_dump_kws[k] \notin ({argv.sf, argv.cf} \ {NoFeed})
        /\ pc = "done" =>
               /\ argv.sf.kind = "valid" => InSeq(passes, "stacktrace")
               /\ argv.cf.kind = "valid" => InSeq(passes, "decryption")

\* C10 (as stated): no write of a run targets the input file.
C10_InputNeverWritten ==
    \A i \in 1..Len(writes) : writes[i] # FileOf(input_file)

====
